---- MODULE Spec2Model ----
(***************************************************************************)
(* A model of python_unittests.py, the path logic of vim-pyunit: the test  *)
(* layouts (side-by-side, flat, follow-hierarchy), the project-root walk,  *)
(* the relative-path backport and the source/test counterpart resolver.    *)
(*                                                                         *)
(* Python strings are TLA+ strings; paths are strings with "/" as os.sep.  *)
(* The filesystem is a set of directories, a set of regular files and a    *)
(* set of symbolic links to directories.                                   *)
(***************************************************************************)
EXTENDS Integers, Sequences, FiniteSets, TLC

VARIABLES
    config,     \* the g: variables read through vim.eval, and the interpreter's environment
    dirs,       \* the directories of the filesystem (real paths)
    files,      \* the regular files of the filesystem (real paths)
    links,      \* symbolic links: a set of <<link path, target directory>>
    cwd,        \* the working directory of the editor (changed by lcd)
    arg,        \* the path the next operation is given: the current buffer's
    pc,         \* the position inside find_project_root when it is run stepwise
    frame,      \* the other arguments and the locals of the running operation
    log         \* the operations run so far: [op, arg, ret]

vars == <<config, dirs, files, links, cwd, arg, pc, frame, log>>

----------------------------------------------------------------------------
(* Python string operations                                                *)

\* F(v) with v evaluated once and bound to its value, as a Python
\* assignment does (a LET definition is evaluated again at each use)
Bind(v, F(_)) == CHOOSE r \in {F(x) : x \in {v}} : TRUE

Sep == "/"
Pardir == ".."
Curdir == "."

Char(s, i) == SubSeq(s, i, i)

\* s[n:]
From(s, n) == SubSeq(s, n + 1, Len(s))

\* s[:n]
Upto(s, n) == SubSeq(s, 1, n)

\* s.startswith(p)
StartsWith(s, p) == Len(p) <= Len(s) /\ SubSeq(s, 1, Len(p)) = p

\* s.endswith(p)
EndsWith(s, p) == Len(p) <= Len(s) /\ SubSeq(s, Len(s) - Len(p) + 1, Len(s)) = p

\* the 1-based indices at which the one-character string c occurs in s
Indices(s, c) == {i \in 1..Len(s) : Char(s, i) = c}

\* s.find(c) as a 1-based index; 0 when absent
Find(s, c) ==
    Bind(Indices(s, c), LAMBDA idx :
        IF idx = {} THEN 0 ELSE CHOOSE i \in idx : \A j \in idx : i <= j)

\* s.rfind(c) as a 1-based index; 0 when absent
RFind(s, c) ==
    Bind(Indices(s, c), LAMBDA idx :
        IF idx = {} THEN 0 ELSE CHOOSE i \in idx : \A j \in idx : i >= j)

\* the k-th smallest element of a set of numbers
Nth(idx, k) == CHOOSE i \in idx : Cardinality({j \in idx : j < i}) = k - 1

\* s.split(c) for a one-character c: the pieces between the occurrences
\* of c, the start and the end of s
Split(s, c) ==
    Bind(Indices(s, c), LAMBDA idx :
        LET n == Cardinality(idx)
            at(k) == IF k = 0 THEN 0 ELSE IF k = n + 1 THEN Len(s) + 1
                     ELSE Nth(idx, k)
        IN  [k \in 1..(n + 1) |-> SubSeq(s, at(k - 1) + 1, at(k) - 1)])

\* the sequence without its last element: parts[:-1]
Front(parts) == SubSeq(parts, 1, Len(parts) - 1)

Last(parts) == parts[Len(parts)]

\* sep.join(parts[i:]), with i counted from 1
RECURSIVE JoinFrom(_, _, _)
JoinFrom(parts, i, sep) ==
    IF i > Len(parts) THEN ""
    ELSE IF i = Len(parts) THEN parts[i]
    ELSE parts[i] \o sep \o JoinFrom(parts, i + 1, sep)

\* sep.join(parts)
Join(parts, sep) == Bind(parts, LAMBDA ps : JoinFrom(ps, 1, sep))

\* "".join(parts)
Concat(parts) == Join(parts, "")

\* s.rstrip("/"): s up to its last character that is not a "/"
RStripSep(s) ==
    Bind({i \in 1..Len(s) : Char(s, i) # Sep}, LAMBDA keep :
        IF keep = {} THEN ""
        ELSE Upto(s, CHOOSE i \in keep : \A j \in keep : i >= j))

\* [x for x in parts if x]
NonEmpty(parts) == SelectSeq(parts, LAMBDA x : x # "")

\* [value] * n
Repeat(value, n) == [k \in 1..n |-> value]

----------------------------------------------------------------------------
(* Results: a returned value or a raised exception                         *)

Ok(v) == [ok |-> TRUE, value |-> v]
Raise(e, msg) == [ok |-> FALSE, error |-> e, message |-> msg]

\* F(r.value) when r is a returned value, r itself when it is an exception
\* (which propagates to the caller)
Then(r, F(_)) == Bind(r, LAMBDA x : IF x.ok THEN F(x.value) ELSE x)

----------------------------------------------------------------------------
(* os.path (posixpath) on strings                                          *)

\* os.path.isabs
isabs(p) == StartsWith(p, Sep)

\* os.path.join(a, b)
join(a, b) ==
    IF StartsWith(b, Sep) THEN b
    ELSE Bind(a, LAMBDA head :
             IF head = "" \/ EndsWith(head, Sep) THEN head \o b
             ELSE head \o Sep \o b)

\* os.path.join(*parts[:n])
RECURSIVE joinupto(_, _)
joinupto(parts, n) ==
    IF n = 1 THEN parts[1] ELSE join(joinupto(parts, n - 1), parts[n])

\* os.path.join(*parts)
joinall(parts) == joinupto(parts, Len(parts))

AllSlashes(s) == \A i \in 1..Len(s) : Char(s, i) = Sep

\* os.path.dirname
dirname(p) ==
    Bind(Upto(p, RFind(p, Sep)), LAMBDA head :
        IF head # "" /\ ~AllSlashes(head) THEN RStripSep(head) ELSE head)

\* os.path.splitext: a pair <<root, ext>>; leading dots of the last
\* component do not start an extension
splitext(p) ==
    Bind(<<RFind(p, Sep), RFind(p, ".")>>, LAMBDA ix :
        LET sepIndex == ix[1]
            dotIndex == ix[2]
        IN  IF dotIndex > sepIndex
               /\ \E k \in (sepIndex + 1)..(dotIndex - 1) : Char(p, k) # "."
            THEN <<Upto(p, dotIndex - 1), From(p, dotIndex - 1)>>
            ELSE <<p, "">>)

\* the loop of os.path.normpath over the components comps[i:]
RECURSIVE NormComps(_, _, _, _)
NormComps(comps, i, new_comps, initial_slashes) ==
    IF i > Len(comps) THEN new_comps
    ELSE IF comps[i] = "" \/ comps[i] = Curdir
    THEN NormComps(comps, i + 1, new_comps, initial_slashes)
    ELSE IF comps[i] # Pardir
            \/ (initial_slashes = 0 /\ new_comps = <<>>)
            \/ (new_comps # <<>> /\ Last(new_comps) = Pardir)
    THEN Bind(Append(new_comps, comps[i]), LAMBDA nc :
             NormComps(comps, i + 1, nc, initial_slashes))
    ELSE IF new_comps # <<>>
    THEN Bind(Front(new_comps), LAMBDA nc :
             NormComps(comps, i + 1, nc, initial_slashes))
    ELSE NormComps(comps, i + 1, new_comps, initial_slashes)

\* os.path.normpath
normpath(p) ==
    IF p = "" THEN Curdir
    ELSE LET initial_slashes ==
                 IF ~StartsWith(p, Sep) THEN 0
                 ELSE IF StartsWith(p, "//") /\ ~StartsWith(p, "///") THEN 2
                 ELSE 1
         IN  Bind(Join(Bind(Split(p, Sep), LAMBDA comps :
                           NormComps(comps, 1, <<>>, initial_slashes)), Sep),
                  LAMBDA body :
                    IF initial_slashes = 2 THEN "//" \o body
                    ELSE IF initial_slashes = 1 THEN Sep \o body
                    ELSE IF body = "" THEN Curdir
                    ELSE body)

\* os.path.abspath
abspath(p) == Bind(IF isabs(p) THEN p ELSE join(cwd, p), LAMBDA q : normpath(q))

\* the number of leading elements two lists share (os.path.commonprefix)
CommonLen(a, b) ==
    Bind({n \in 0..Len(a) : n <= Len(b) /\ SubSeq(a, 1, n) = SubSeq(b, 1, n)},
         LAMBDA ns : CHOOSE n \in ns : \A m \in ns : n >= m)

\* os.path.relpath(path, start), the standard library's
relpath(path, start) ==
    IF path = "" THEN Raise("ValueError", "no path specified")
    ELSE Bind(<<NonEmpty(Split(abspath(start), Sep)),
                NonEmpty(Split(abspath(path), Sep))>>, LAMBDA lists :
         LET start_list == lists[1]
             path_list == lists[2]
         IN  Bind(CommonLen(start_list, path_list), LAMBDA i :
             Bind(Repeat(Pardir, Len(start_list) - i)
                      \o SubSeq(path_list, i + 1, Len(path_list)),
                  LAMBDA rel_list :
                    IF rel_list = <<>> THEN Ok(Curdir)
                    ELSE Ok(joinall(rel_list)))))

----------------------------------------------------------------------------
(* The filesystem                                                          *)

ENOENT == "<ENOENT>"

IsLink(p) == \E l \in links : l[1] = p
ReadLink(p) == (CHOOSE l \in links : l[1] = p)[2]

\* Follows the components of a path from directory cur, resolving ".." and
\* symbolic links as the kernel does. With strict, every component must be
\* looked up in an existing directory (else ENOENT), as for stat(); without
\* it, missing components are kept as they are, as os.path.realpath does.
RECURSIVE Walk(_, _, _, _)
Walk(cur, comps, i, strict) ==
    IF i > Len(comps) THEN cur
    ELSE IF comps[i] = "" \/ comps[i] = Curdir THEN Walk(cur, comps, i + 1, strict)
    ELSE IF strict /\ cur \notin dirs THEN ENOENT
    ELSE IF comps[i] = Pardir
    THEN Bind(dirname(cur), LAMBDA up : Walk(up, comps, i + 1, strict))
    ELSE Bind(join(cur, comps[i]), LAMBDA newpath :
             IF IsLink(newpath)
             THEN Walk(ReadLink(newpath), comps, i + 1, strict)
             ELSE Walk(newpath, comps, i + 1, strict))

Anchored(p) == IF isabs(p) THEN p ELSE join(cwd, p)

\* os.path.realpath
realpath(p) == Bind(Split(Anchored(p), Sep), LAMBDA comps : Walk(Sep, comps, 1, FALSE))

\* the file or directory a path names for stat(), or ENOENT
Lookup(p) ==
    IF p = "" THEN ENOENT
    ELSE Bind(Split(Anchored(p), Sep), LAMBDA comps : Walk(Sep, comps, 1, TRUE))

\* os.path.isdir, os.path.isfile, os.path.exists
isdir(p) == Lookup(p) \in dirs
isfile(p) == Lookup(p) \in files
exists(p) == Lookup(p) \in (dirs \cup files)

----------------------------------------------------------------------------
(* General helper functions                                                *)

strip_prefix(s, pfx) ==
    IF pfx # "" /\ StartsWith(s, pfx) THEN From(s, Len(pfx)) ELSE s

\* The fallback of _relpath: the loop that strips directories off fulls
\* until it is a (string) prefix of fullp; <<number of "..", fulls>>
RECURSIVE StripDirs(_, _, _)
StripDirs(fullp, fulls, n) ==
    Bind(dirname(fulls), LAMBDA up :
        IF StartsWith(fullp, up) THEN <<n + 1, up>>
        ELSE StripDirs(fullp, up, n + 1))

\* _relpath below the try_stdlib block: the backport for Python 2.4
relpath_fallback(path, start) ==
    Bind(<<abspath(path), abspath(start), normpath(start)>>, LAMBDA v :
    LET fullp == v[1]
        fulls == v[2]
        matchs == IF EndsWith(v[3], Sep) THEN v[3] ELSE v[3] \o Sep
    IN  IF fullp = fulls THEN Ok(Curdir)
        ELSE IF StartsWith(fullp, matchs) THEN Ok(From(fullp, Len(matchs)))
        ELSE Bind(StripDirs(fullp, fulls, 0), LAMBDA stripped :
             LET rest == From(fullp, Len(stripped[2]))
                 remainder == IF StartsWith(rest, Sep) THEN From(rest, Len(Sep))
                              ELSE rest
                 path_prefix == Join(Repeat(Pardir, stripped[1]), Sep)
             IN  Ok(join(path_prefix, remainder))))

\* _relpath(path, start): os.path.relpath where the interpreter has it
\* (Python 2.6 and later), the backport where it raises AttributeError
_relpath(path, start) ==
    IF config.has_relpath THEN relpath(path, start)
    ELSE relpath_fallback(path, start)

----------------------------------------------------------------------------
(* BaseTestLayout and its three subclasses. self.source_root,              *)
(* self.test_root and self.prefix are the g: variables read in __init__.   *)

source_root == config.PyUnitSourceRoot
test_root == config.PyUnitTestsRoot
prefix == config.PyUnitTestPrefix

IndexError == Raise("IndexError", "list index out of range")

break_down(path) ==
    Bind(Split(path, Sep), LAMBDA parts :
        IF Last(parts) = "__init__.py" THEN Front(parts)
        ELSE IF EndsWith(Last(parts), ".py")
        THEN Front(parts) \o <<Upto(Last(parts), Len(Last(parts)) - Len(".py"))>>
        ELSE parts)

glue_parts(parts, use_under_under_init) ==
    IF use_under_under_init THEN Ok(Join(parts \o <<"__init__.py">>, Sep))
    ELSE IF parts = <<>> THEN IndexError
    ELSE Ok(Join(Front(parts) \o <<Last(parts) \o ".py">>, Sep))

\* [self.glue_parts(parts, x) for x in (False, True)]
glue_both(parts) ==
    Then(glue_parts(parts, FALSE), LAMBDA plain :
    Then(glue_parts(parts, TRUE), LAMBDA init :
        Ok(<<plain, init>>)))

SideBySide_is_test_file(some_file) ==
    Bind(break_down(some_file), LAMBDA parts :
        IF parts = <<>> THEN IndexError
        ELSE Ok(StartsWith(Last(parts), prefix)))

SideBySide_get_test_file(source_file) ==
    Bind(break_down(source_file), LAMBDA parts :
        IF parts = <<>> THEN IndexError
        ELSE glue_parts(Front(parts) \o <<prefix \o Last(parts)>>, FALSE))

SideBySide_get_source_candidates(test_file) ==
    Bind(break_down(test_file), LAMBDA parts :
        IF parts = <<>> THEN IndexError
        ELSE IF ~StartsWith(Last(parts), prefix)
        THEN Raise("RuntimeError", "Not a test file.")
        ELSE Then(glue_parts(Front(parts) \o <<From(Last(parts), Len(prefix))>>,
                             FALSE),
                  LAMBDA glued : Ok(<<glued>>)))

Flat_is_test_file(some_file) ==
    IF ~StartsWith(some_file, test_root) THEN Ok(FALSE)
    ELSE Then(_relpath(some_file, test_root), LAMBDA rel :
         Bind(break_down(rel), LAMBDA parts :
             IF Len(parts) # 1 THEN Ok(FALSE)
             ELSE Ok(StartsWith(parts[1], prefix))))

Flat_get_test_file(source_file) ==
    IF ~StartsWith(source_file, source_root)
    THEN Raise("RuntimeError", "File %s is not under the source root.")
    ELSE Then(_relpath(source_file, source_root), LAMBDA rel :
         Bind(break_down(rel), LAMBDA parts :
         Bind(Join(parts, "_"), LAMBDA flat_file_name :
             glue_parts(<<test_root, prefix \o flat_file_name>>, FALSE))))

Flat_get_source_candidates(test_file) ==
    IF ~StartsWith(test_file, test_root)
    THEN Raise("RuntimeError", "File %s is not under the test root.")
    ELSE Then(_relpath(test_file, test_root), LAMBDA rel :
         Bind(break_down(rel), LAMBDA parts :
             IF Len(parts) # 1
             THEN Raise("RuntimeError",
                        "Flat tests layout does not allow tests to be more than one directory deep.")
             ELSE Bind(strip_prefix(parts[1], prefix), LAMBDA file_name :
                  Bind(<<source_root>> \o Split(file_name, "_"), LAMBDA src_parts :
                      glue_both(src_parts)))))

FollowHierarchy_is_test_file(some_file) ==
    IF ~StartsWith(some_file, test_root) THEN Ok(FALSE)
    ELSE Then(_relpath(some_file, test_root), LAMBDA rel :
         Bind(break_down(rel), LAMBDA parts :
             Ok(\A i \in 1..Len(parts) : StartsWith(parts[i], prefix))))

FollowHierarchy_get_test_file(source_file) ==
    IF ~StartsWith(source_file, source_root)
    THEN Raise("RuntimeError", "File %s is not under the source root.")
    ELSE Then(_relpath(source_file, source_root), LAMBDA rel :
         Bind(break_down(rel), LAMBDA parts :
         Bind(<<test_root>> \o [i \in 1..Len(parts) |-> prefix \o parts[i]],
              LAMBDA test_parts : glue_parts(test_parts, FALSE))))

FollowHierarchy_get_source_candidates(test_file) ==
    IF ~StartsWith(test_file, test_root)
    THEN Raise("RuntimeError", "File %s is not under the test root.")
    ELSE Then(_relpath(test_file, test_root), LAMBDA rel :
         Bind(break_down(rel), LAMBDA parts :
         Bind(<<source_root>>
                  \o [i \in 1..Len(parts) |-> strip_prefix(parts[i], prefix)],
              LAMBDA src_parts : glue_both(src_parts))))

\* The method of the layout class cls, as Python dispatches it
Layout_is_test_file(cls, some_file) ==
    CASE cls = "side-by-side" -> SideBySide_is_test_file(some_file)
      [] cls = "flat" -> Flat_is_test_file(some_file)
      [] cls = "follow-hierarchy" -> FollowHierarchy_is_test_file(some_file)

Layout_get_test_file(cls, source_file) ==
    CASE cls = "side-by-side" -> SideBySide_get_test_file(source_file)
      [] cls = "flat" -> Flat_get_test_file(source_file)
      [] cls = "follow-hierarchy" -> FollowHierarchy_get_test_file(source_file)

Layout_get_source_candidates(cls, test_file) ==
    CASE cls = "side-by-side" -> SideBySide_get_source_candidates(test_file)
      [] cls = "flat" -> Flat_get_source_candidates(test_file)
      [] cls = "follow-hierarchy" -> FollowHierarchy_get_source_candidates(test_file)

\* self.get_source_file_candidates: no class defines an attribute of this
\* name (the method is get_source_candidates), so the lookup raises
get_source_file_candidates(cls, test_file) ==
    Raise("AttributeError", "object has no attribute 'get_source_file_candidates'")

\* the loop of get_source_file: the first candidate that exists
FirstExisting(candidates) ==
    Bind({k \in 1..Len(candidates) : exists(candidates[k])}, LAMBDA found :
        IF found = {} THEN Raise("RuntimeError", "Source file not found.")
        ELSE Ok(candidates[CHOOSE k \in found : \A j \in found : k <= j]))

BaseTestLayout_get_source_file(cls, test_file) ==
    Then(get_source_file_candidates(cls, test_file), LAMBDA candidates :
        FirstExisting(candidates))

KnownLayouts == {"flat", "follow-hierarchy", "side-by-side"}

get_implementing_class ==
    IF config.PyUnitTestsStructure \in KnownLayouts
    THEN Ok(config.PyUnitTestsStructure)
    ELSE Raise("RuntimeError", "No such test layout: %s")

----------------------------------------------------------------------------
(* The main functions                                                      *)

\* os.path.expandvars("$HOME")
HOME == config.HOME

is_home_dir(path) == realpath(path) = HOME

is_fs_root(path) ==
    Bind(realpath(path), LAMBDA real :
        real = Sep \/ (config.ProjRootStopAtHomeDir # 0 /\ real = HOME))

\* for i in indicators: if os.path.exists(os.path.join(path, i))
has_indicator(path) ==
    \E k \in 1..Len(config.ProjRootIndicators) :
        exists(join(path, config.ProjRootIndicators[k]))

ProjectRootNotFound == Raise("Exception", "Could not find project root")

\* the while loop of find_project_root
RECURSIVE find_project_root_loop(_)
find_project_root_loop(path) ==
    IF is_fs_root(path) THEN ProjectRootNotFound
    ELSE IF has_indicator(path) THEN Ok(normpath(path))
    ELSE Bind(join(path, Pardir), LAMBDA parent : find_project_root_loop(parent))

RECURSIVE find_project_root(_)
find_project_root(path) ==
    IF ~isdir(path)
    THEN Bind(dirname(realpath(path)), LAMBDA parent : find_project_root(parent))
    ELSE find_project_root_loop(path)

find_source_root(path) ==
    Then(find_project_root(path), LAMBDA root : Ok(join(root, source_root)))

\* allow_outside_root keeps its default, False, at every call
get_relative_source_path(path) ==
    Then(find_source_root(path), LAMBDA root :
        IF StartsWith(realpath(path), root) THEN _relpath(path, root)
        ELSE Raise("Exception", "Path %s is not in the source root."))

get_tests_root(path) ==
    Then(find_project_root(path), LAMBDA root :
        Ok(Join(<<root, test_root>>, Sep)))

get_test_file_for_source_file(path) ==
    Then(get_relative_source_path(path), LAMBDA rel :
    Then(get_implementing_class, LAMBDA impl :
        Layout_get_test_file(impl, rel)))

\* [[opt] + x for x in tails]
Prepend(opt, tails) == [j \in 1..Len(tails) |-> <<opt>> \o tails[j]]

\* A variant of the loops of slashgenerator with the two for statements
\* exchanged (for x in tails: for opt in select_from): the same lists in
\* another order
PrependEachInnerFirst(select_from, k, tails) ==
    [j \in 1..(Len(tails) * Len(select_from)) |->
        <<select_from[((j - 1) % Len(select_from)) + 1]>>
            \o tails[((j - 1) \div Len(select_from)) + 1]]

\* for opt in select_from[k:]: for x in tails: yield [opt] + x
RECURSIVE PrependEach(_, _, _)
PrependEach(select_from, k, tails) ==
    IF k > Len(select_from) THEN <<>>
    ELSE Prepend(select_from[k], tails) \o PrependEach(select_from, k + 1, tails)

\* the lists slashgenerator yields, in the order it yields them
RECURSIVE slashgenerator(_, _, _)
slashgenerator(length, select_from, select_last_from) ==
    IF length <= 0
    THEN [k \in 1..Len(select_last_from) |-> <<select_last_from[k]>>]
    ELSE Bind(slashgenerator(length - 1, select_from, select_last_from),
              LAMBDA tails : PrependEach(select_from, 1, tails))

Max(a, b) == IF a >= b THEN a ELSE b

\* what interlace yields from index i on
RECURSIVE interlace_from(_, _, _)
interlace_from(x, y, i) ==
    IF i > Max(Len(x), Len(y)) THEN <<>>
    ELSE (IF i <= Len(x) THEN <<x[i]>> ELSE <<>>)
             \o (IF i <= Len(y) THEN <<y[i]>> ELSE <<>>)
             \o interlace_from(x, y, i + 1)

\* the elements interlace yields, in order
interlace(x, y) == interlace_from(x, y, 1)

SourceFileNotFound == Raise("Exception", "Source file not found.")

\* the for loop of the flat branch: the guesses in the order they are
\* made, and the first of them that is a file
first_guess(src_root, parts, slashes_list) ==
    Bind([k \in 1..Len(slashes_list) |->
             join(src_root, Concat(interlace(parts, slashes_list[k])))],
         LAMBDA guesses :
    Bind({k \in 1..Len(guesses) : isfile(guesses[k])}, LAMBDA found :
        IF found = {} THEN SourceFileNotFound
        ELSE Ok(guesses[CHOOSE k \in found : \A j \in found : k <= j])))

\* the flat branch of find_source_file_for_test_file
find_source_file_flat(src_root, sourcefile) ==
    Bind(splitext(sourcefile), LAMBDA se :
    LET stripped == se[1]
        extension == se[2]
        intermediate_pairs == <<"/", "_">>
        last_pair == <<extension, "/__init__" \o extension>>
    IN  Bind(Split(stripped, "_"), LAMBDA parts :
        Bind(slashgenerator(Len(parts) - 1, intermediate_pairs, last_pair),
             LAMBDA slashes_list : first_guess(src_root, parts, slashes_list))))

\* the branch of find_source_file_for_test_file for the other structures
find_source_file_nonflat(src_root, relative) ==
    Bind(join(src_root, relative), LAMBDA sourcefile :
        IF isfile(sourcefile) THEN Ok(sourcefile)
        ELSE Bind(splitext(sourcefile), LAMBDA se :
             Bind(Concat(<<se[1], Sep, "__init__", se[2]>>), LAMBDA package :
                 IF isfile(package) THEN Ok(package) ELSE SourceFileNotFound)))

find_source_file_for_test_file(path) ==
    Then(get_tests_root(path), LAMBDA testsroot :
    Then(_relpath(path, testsroot), LAMBDA rel_path :
    Bind(Split(rel_path, Sep), LAMBDA split :
    Bind(Join([i \in 1..Len(split) |-> strip_prefix(split[i], prefix)], Sep),
         LAMBDA sourcefile :
    Then(find_source_root(path), LAMBDA src_root :
        IF config.PyUnitTestsStructure = "flat"
        THEN find_source_file_flat(src_root, sourcefile)
        ELSE find_source_file_nonflat(src_root, sourcefile))))))

\* Being in the test root means you're a test file
is_test_file(path) ==
    Then(get_tests_root(path), LAMBDA root :
        Ok(StartsWith(abspath(path), abspath(root))))

----------------------------------------------------------------------------
(* Bounds and the worlds the operations are run in                         *)

MaxParts == 3       \* underscore-separated parts of a module name
MaxCalls == 3       \* operations run one after another
MaxDepth == 3       \* directory levels below the filesystem root
MaxDirs == 1        \* package directories between the source root and a module

\* the name of the k-th part of a module name: "a", "b", "c", ...
PartName(k) == Char("abcdefgh", k)
LayoutNames == KnownLayouts \cup {"nose"}

Cfg(layout, pfx) ==
    [ PyUnitSourceRoot |-> "src",
      PyUnitTestsRoot |-> "tests",
      PyUnitTestPrefix |-> pfx,
      PyUnitTestsStructure |-> layout,
      PyUnitConfirmTestCreation |-> 1,
      ProjRootIndicators |-> <<".git", "setup.py">>,
      ProjRootStopAtHomeDir |-> 0,
      HOME |-> "/home",
      has_relpath |-> TRUE ]

Range(f) == {f[i] : i \in DOMAIN f}

\* the proper ancestor directories of an absolute path
RECURSIVE Ancestors(_)
Ancestors(p) ==
    IF p = Sep THEN {}
    ELSE Bind(dirname(p), LAMBDA up : {up} \cup Ancestors(up))

AncestorsOfAll(ps) == UNION {Ancestors(p) : p \in ps}

\* the module names of one to MaxParts parts: a, a_b, a_b_c, ...
PartSeqs == {[k \in 1..n |-> PartName(k)] : n \in 1..MaxParts}

\* every way of joining the parts with "/" or "_"
RECURSIVE Joinings(_)
Joinings(parts) ==
    IF Len(parts) = 1 THEN {parts[1]}
    ELSE {parts[1] \o s \o r : s \in {"/", "_"}, r \in Joinings(Tail(parts))}

\* the modules and packages under /p/src whose flat test name is made of
\* these parts
SourceUniverse(parts) ==
    {"/p/src/" \o j \o e : j \in Joinings(parts), e \in {".py", "/__init__.py"}}

\* the paths an operation is given in a project /p for these parts
ProjectInputs(parts) ==
    { "/p/tests/test_" \o Join(parts, "_") \o ".py",
      "/p/tests/" \o Join([i \in 1..Len(parts) |-> "test_" \o parts[i]], "/") \o ".py",
      "/p/src/" \o Join(parts, "/") \o ".py",
      "/p/src/" \o Join(parts, "_") \o ".py",
      "/p/src/" \o Join(parts, "/") \o "/__init__.py",
      "/p/tests_extra/" \o Join(parts, "_") \o ".py",
      "/q/tests/test_" \o Join(parts, "_") \o ".py" }

ProjectDirs ==
    {"/", "/p", "/p/.git", "/p/src", "/p/tests", "/p/tests_extra", "/q", "/q/tests"}

\* A project /p marked by /p/.git, holding the file the operation is given
\* and at most two of the source files the parts can stand for; /q is
\* outside any project
InitProject ==
    /\ \E layout \in LayoutNames : config = Cfg(layout, "test_")
    /\ \E parts \in PartSeqs :
         /\ arg \in ProjectInputs(parts)
         /\ \E f1, f2 \in SourceUniverse(parts) :
              files \in {{arg}, {arg, f1, f2}}
    /\ dirs = ProjectDirs \cup AncestorsOfAll(files)
    /\ links = {}
    /\ cwd = "/p"
    /\ pc = "idle"
    /\ frame = <<>>
    /\ log = <<>>

Entry(op, a, r) == [op |-> op, arg |-> a, ret |-> r]

----------------------------------------------------------------------------
(* Spec: the resolver's three queries, each run once on the given path     *)

IsTestFile ==
    /\ log = <<>>
    /\ log' = <<Entry("is_test_file", arg, is_test_file(arg))>>
    /\ UNCHANGED <<config, dirs, files, links, cwd, arg, pc, frame>>

GetTestFileForSourceFile ==
    /\ log = <<>>
    /\ log' = <<Entry("get_test_file_for_source_file", arg,
                      get_test_file_for_source_file(arg))>>
    /\ UNCHANGED <<config, dirs, files, links, cwd, arg, pc, frame>>

FindSourceFileForTestFile ==
    /\ log = <<>>
    /\ log' = <<Entry("find_source_file_for_test_file", arg,
                      find_source_file_for_test_file(arg))>>
    /\ UNCHANGED <<config, dirs, files, links, cwd, arg, pc, frame>>

Next ==
    \/ IsTestFile
    \/ GetTestFileForSourceFile
    \/ FindSourceFileForTestFile

Spec == InitProject /\ [][Next]_vars

----------------------------------------------------------------------------
(* Properties of the resolver (Spec)                                       *)

Known == config.PyUnitTestsStructure \in KnownLayouts

\* the entries of the log for one operation
Calls(op) == {k \in 1..Len(log) : log[k].op = op}

\* bit i (from 0, the least significant) of k
Bit(k, i) == (k \div (2 ^ i)) % 2

\* Candidate number k (from 0) for the parts of a flat test name: between
\* parts[i] and parts[i+1] a "/" when bit n-i of k is 0 and a "_" when it
\* is 1, so that earlier positions vary slowest; the plain module when bit
\* 0 is 0 and the package's __init__ when it is 1
FlatCandidate(parts, k) ==
    LET n == Len(parts)
        piece(j) == IF j % 2 = 1 THEN parts[(j + 1) \div 2]
                    ELSE IF Bit(k, n - (j \div 2)) = 0 THEN "/" ELSE "_"
    IN  "/p/src/" \o JoinFrom([j \in 1..(2 * n - 1) |-> piece(j)], 1, "")
            \o (IF Bit(k, 0) = 0 THEN ".py" ELSE "/__init__.py")

\* the parts a flat test file /p/tests/test_<name>.py stands for
FlatTestParts(p) ==
    {parts \in PartSeqs : p = "/p/tests/test_" \o JoinFrom(parts, 1, "_") \o ".py"}

\* C4: under the flat layout, find_source_file_for_test_file on the test
\* file of n parts returns the candidate of least number, among the 2^n
\* candidates (2^(n-1) joinings with "/" before "_" and earlier positions
\* slowest, each as plain module and then as package __init__), that is a
\* file, and raises "Source file not found." exactly when none is a file.
C4_FlatFirstCandidate ==
    \A c \in Calls("find_source_file_for_test_file") :
        \A parts \in FlatTestParts(log[c].arg) :
            config.PyUnitTestsStructure = "flat" =>
                LET n == Len(parts)
                    found == {k \in 0..(2 ^ n - 1) : FlatCandidate(parts, k) \in files}
                IN  /\ found = {} => log[c].ret = SourceFileNotFound
                    /\ found # {} =>
                         log[c].ret = Ok(FlatCandidate(parts,
                                 CHOOSE k \in found : \A j \in found : k <= j))

\* C4 witness: a flat test name of three parts or more with two existing
\* candidates, neither the all-"/" plain module, resolved to one of them
C4_Witness ==
    /\ config.PyUnitTestsStructure = "flat"
    /\ \E c \in Calls("find_source_file_for_test_file") :
         \E parts \in FlatTestParts(log[c].arg) :
            /\ Len(parts) >= 3
            /\ Cardinality({k \in 0..(2 ^ Len(parts) - 1) :
                                FlatCandidate(parts, k) \in files}) = 2
            /\ FlatCandidate(parts, 0) \notin files
            /\ FlatCandidate(parts, 1) \notin files
            /\ log[c].ret.ok
            /\ log[c].ret.value \in files

\* the source files of a project: the modules and packages under /p/src
IsProjectSource(p) ==
    \E parts \in PartSeqs : \E j \in Joinings(parts) :
        \E e \in {".py", "/__init__.py"} : p = "/p/src/" \o j \o e

\* C2: for a known layout and a source file under the project's source
\* root, get_test_file_for_source_file returns, and returns an absolute
\* path; under the flat layout /p/src/a/b.py gives /p/tests/test_a_b.py.
C2_SourceToTestAbsolute ==
    \A c \in Calls("get_test_file_for_source_file") :
        (Known /\ IsProjectSource(log[c].arg)) =>
            /\ log[c].ret.ok
            /\ isabs(log[c].ret.value)
            /\ \A parts \in PartSeqs :
                 (config.PyUnitTestsStructure = "flat"
                    /\ log[c].arg = "/p/src/" \o JoinFrom(parts, 1, "/") \o ".py")
                 => log[c].ret.value = "/p/tests/test_" \o JoinFrom(parts, 1, "_") \o ".py"

\* C3: is_test_file returns true exactly for the paths that have the test
\* root /p/tests among their ancestor directories.
C3_TestRootIsAncestor ==
    \A c \in Calls("is_test_file") :
        log[c].ret.ok =>
            (log[c].ret.value <=> "/p/tests" \in Ancestors(log[c].arg))

\* C6: with a layout name that is none of the three, a resolution in
\* either direction raises "No such test layout" and returns no path.
C6_UnknownLayoutFails ==
    \A k \in 1..Len(log) :
        (/\ ~Known
         /\ \/ log[k].op = "get_test_file_for_source_file" /\ IsProjectSource(log[k].arg)
            \/ log[k].op = "find_source_file_for_test_file"
                 /\ "/p/tests" \in Ancestors(log[k].arg))
        => /\ ~log[k].ret.ok
           /\ log[k].ret.error = "RuntimeError"
           /\ log[k].ret.message = "No such test layout: %s"

----------------------------------------------------------------------------
(* SpecLayout: the methods of a layout object, called one after another    *)
(* on a path written relative to the project root /p, the working          *)
(* directory                                                               *)

DirNames == {"a", "a_b", "test_a"}
FileNames == {"b.py", "a_b.py", "test_b.py", "__init__.py"}

\* the package directories between the source root and a file
DirSeqs == UNION {[1..n -> DirNames] : n \in 0..MaxDirs}

\* the source paths under the source root sroot ("" is the project root)
LayoutInputs(sroot) ==
    {JoinFrom((IF sroot = "" THEN <<>> ELSE <<sroot>>) \o ds \o <<f>>, 1, Sep) :
        ds \in DirSeqs, f \in FileNames}

InitLayout ==
    /\ \E layout \in KnownLayouts, pfx \in {"test_", ""}, sroot \in {"src", ""} :
         /\ config = [Cfg(layout, pfx) EXCEPT !.PyUnitSourceRoot = sroot]
         /\ arg \in LayoutInputs(sroot)
    /\ cwd = "/p"
    /\ files = {join(cwd, arg)}
    /\ dirs = {"/", "/p"} \cup AncestorsOfAll(files)
    /\ links = {}
    /\ pc = "idle"
    /\ frame = <<>>
    /\ log = <<>>

\* impl = get_implementing_class()(); impl.is_test_file(arg)
LayoutIsTestFile ==
    /\ Len(log) < MaxCalls
    /\ log' = Append(log, Entry("is_test_file", arg,
                  Then(get_implementing_class, LAMBDA impl :
                      Layout_is_test_file(impl, arg))))
    /\ UNCHANGED <<config, dirs, files, links, cwd, arg, pc, frame>>

\* arg = impl.get_test_file(arg)
LayoutGetTestFile ==
    /\ Len(log) < MaxCalls
    /\ \E r \in {Then(get_implementing_class, LAMBDA impl :
                     Layout_get_test_file(impl, arg))} :
         /\ log' = Append(log, Entry("get_test_file", arg, r))
         /\ arg' = IF r.ok THEN r.value ELSE arg
    /\ UNCHANGED <<config, dirs, files, links, cwd, pc, frame>>

\* impl.get_source_candidates(arg)
LayoutGetSourceCandidates ==
    /\ Len(log) < MaxCalls
    /\ log' = Append(log, Entry("get_source_candidates", arg,
                  Then(get_implementing_class, LAMBDA impl :
                      Layout_get_source_candidates(impl, arg))))
    /\ UNCHANGED <<config, dirs, files, links, cwd, arg, pc, frame>>

\* impl.get_source_file(arg)
LayoutGetSourceFile ==
    /\ Len(log) < MaxCalls
    /\ log' = Append(log, Entry("get_source_file", arg,
                  Then(get_implementing_class, LAMBDA impl :
                      BaseTestLayout_get_source_file(impl, arg))))
    /\ UNCHANGED <<config, dirs, files, links, cwd, arg, pc, frame>>

NextLayout ==
    \/ LayoutIsTestFile
    \/ LayoutGetTestFile
    \/ LayoutGetSourceCandidates
    \/ LayoutGetSourceFile

SpecLayout == InitLayout /\ [][NextLayout]_vars

\* a path under the source root, as the layout classes test it
UnderSourceRoot(p) == source_root = "" \/ StartsWith(p, source_root \o Sep)

\* the calls get_test_file(S) = T that returned, S under the source root
Mapped == {i \in Calls("get_test_file") :
              log[i].ret.ok /\ UnderSourceRoot(log[i].arg)}

\* C1: when get_test_file(S) returned T for a source path S under the
\* source root, get_source_candidates(T) returns a list that contains S.
C1_RoundTrip ==
    \A i \in Mapped : \A j \in Calls("get_source_candidates") :
        (i < j /\ log[j].arg = log[i].ret.value) =>
            /\ log[j].ret.ok
            /\ log[i].arg \in Range(log[j].ret.value)

\* the last segment of a path: its file name
FileName(p) == Last(Split(p, Sep))

\* C8: side by side, is_test_file(get_test_file(S)) is true for every
\* source path S, and is_test_file(S) is false for every S whose file name
\* does not start with the non-empty prefix.
C8_SideBySideClassifies ==
    config.PyUnitTestsStructure = "side-by-side" =>
        /\ \A i \in Calls("get_test_file") :
             /\ log[i].ret.ok
             /\ \A j \in Calls("is_test_file") :
                  (i < j /\ log[j].arg = log[i].ret.value) => log[j].ret = Ok(TRUE)
        /\ \A j \in Calls("is_test_file") :
             (prefix # "" /\ ~StartsWith(FileName(log[j].arg), prefix))
                 => log[j].ret = Ok(FALSE)

\* the first element of a list of paths that exists, as the outcome of a call
FirstThatExists(candidates) ==
    LET found == {k \in 1..Len(candidates) : join(cwd, candidates[k]) \in files \cup dirs}
    IN  IF found = {} THEN Raise("RuntimeError", "Source file not found.")
        ELSE Ok(candidates[CHOOSE k \in found : \A j \in found : k <= j])

\* C9: get_source_file(T) returns the first path of get_source_candidates(T)
\* that exists, and raises "Source file not found." exactly when none does.
C9_FirstExistingCandidate ==
    \A i \in Calls("get_source_file") :
        LET candidates == Layout_get_source_candidates(config.PyUnitTestsStructure,
                                                       log[i].arg)
        IN  candidates.ok => log[i].ret = FirstThatExists(candidates.value)

----------------------------------------------------------------------------
(* SpecRelpath: _relpath(path, start) on two absolute paths, with and      *)
(* without os.path.relpath in the interpreter                              *)

SegmentNames == {"a", "b", "bc"}

\* the absolute paths of at most MaxDepth segments
AbsolutePaths ==
    {Sep \o JoinFrom(segs, 1, Sep) :
        segs \in UNION {[1..n -> SegmentNames] : n \in 0..MaxDepth}}

InitRelpath ==
    /\ \E has \in BOOLEAN :
         config = [Cfg("flat", "test_") EXCEPT !.has_relpath = has]
    /\ arg \in AbsolutePaths
    /\ \E start \in AbsolutePaths : frame = [start |-> start]
    /\ cwd = "/"
    /\ files = {}
    /\ dirs = {"/"}
    /\ links = {}
    /\ pc = "idle"
    /\ log = <<>>

\* _relpath(arg, start)
Relpath ==
    /\ log = <<>>
    /\ log' = <<Entry("_relpath", <<arg, frame.start>>, _relpath(arg, frame.start))>>
    /\ UNCHANGED <<config, dirs, files, links, cwd, arg, pc, frame>>

NextRelpath == Relpath

SpecRelpath == InitRelpath /\ [][NextRelpath]_vars

\* the segments of an absolute path
Segments(p) == NonEmpty(Split(p, Sep))

\* The relative path that denotes p from base: a ".." for each segment of
\* base below the deepest common ancestor directory, then the segments of
\* p below that ancestor; "." when there are neither
Relative(p, base) ==
    LET ps == Segments(p)
        bs == Segments(base)
        shared == {n \in 0..Len(ps) : n <= Len(bs) /\ SubSeq(ps, 1, n) = SubSeq(bs, 1, n)}
        i == CHOOSE n \in shared : \A m \in shared : n >= m
        rel == Repeat(Pardir, Len(bs) - i) \o SubSeq(ps, i + 1, Len(ps))
    IN  IF rel = <<>> THEN Curdir ELSE JoinFrom(rel, 1, Sep)

\* C7: the backport of _relpath returns, for two absolute paths, the
\* relative path that denotes path from base: ".", the remainder below
\* base, or the ".." up to the deepest common ancestor directory followed
\* by the segments of path below it (a trailing "/" apart).
C7_FallbackRelative ==
    \A c \in Calls("_relpath") :
        ~config.has_relpath =>
            /\ log[c].ret.ok
            /\ normpath(log[c].ret.value) = Relative(log[c].arg[1], log[c].arg[2])

----------------------------------------------------------------------------
(* SpecRoot: find_project_root run statement by statement, in a            *)
(* filesystem that is a chain of directories /d/d/..., some of them        *)
(* holding an indicator, with an optional symbolic link /l to one of them  *)

\* the directory k levels below the filesystem root
Chain(k) == IF k = 0 THEN Sep ELSE Sep \o JoinFrom(Repeat("d", k), 1, Sep)

Levels == 0..MaxDepth

\* which indicator each level holds ("" for none), at most two levels
Markings ==
    {m \in [Levels -> {"", ".git", "setup.py"}] :
        Cardinality({k \in Levels : m[k] # ""}) <= 2}

\* the paths find_project_root is given: a directory, a file in it, a file
\* of a directory that does not exist, and the same through the link
StartPaths(linked) ==
    UNION {{Chain(k), join(Chain(k), "f.py"), join(Chain(k), "n/n.py")} : k \in Levels}
        \cup (IF linked THEN {"/l", "/l/f.py"} ELSE {})

InitRoot ==
    /\ \E home \in {"/home", Chain(1), Chain(2)}, stop \in {0, 1} :
         config = [Cfg("flat", "test_") EXCEPT
                       !.HOME = home, !.ProjRootStopAtHomeDir = stop]
    /\ \E m \in Markings :
         /\ dirs = {Chain(k) : k \in Levels}
                      \cup {join(Chain(k), ".git") : k \in {j \in Levels : m[j] = ".git"}}
         /\ files = {join(Chain(k), "f.py") : k \in Levels}
                      \cup {join(Chain(k), "setup.py") :
                                k \in {j \in Levels : m[j] = "setup.py"}}
    /\ links \in {{}} \cup {{<<"/l", Chain(t)>>} : t \in 1..MaxDepth}
    /\ arg \in StartPaths(links # {})
    /\ cwd = "/"
    /\ pc = "idle"
    /\ frame = <<>>
    /\ log = <<>>

\* find_project_root(arg) is called
FPR_Call ==
    /\ pc = "idle"
    /\ log = <<>>
    /\ pc' = "entry"
    /\ frame' = [path |-> arg]
    /\ UNCHANGED <<config, dirs, files, links, cwd, arg, log>>

\* if not os.path.isdir(path): the call on the parent of the real path
FPR_NotDir ==
    /\ pc = "entry"
    /\ ~isdir(frame.path)
    /\ frame' = [path |-> dirname(realpath(frame.path))]
    /\ UNCHANGED <<config, dirs, files, links, cwd, arg, pc, log>>

\* path is a directory: the while loop is entered
FPR_EnterLoop ==
    /\ pc = "entry"
    /\ isdir(frame.path)
    /\ pc' = "loop"
    /\ UNCHANGED <<config, dirs, files, links, cwd, arg, frame, log>>

\* the loop condition fails: raise Exception("Could not find project root")
FPR_Stop ==
    /\ pc = "loop"
    /\ is_fs_root(frame.path)
    /\ pc' = "done"
    /\ log' = <<Entry("find_project_root", arg, ProjectRootNotFound)>>
    /\ UNCHANGED <<config, dirs, files, links, cwd, arg, frame>>

\* an indicator exists in path: return os.path.normpath(path)
FPR_Found ==
    /\ pc = "loop"
    /\ ~is_fs_root(frame.path)
    /\ has_indicator(frame.path)
    /\ pc' = "done"
    /\ log' = <<Entry("find_project_root", arg, Ok(normpath(frame.path)))>>
    /\ UNCHANGED <<config, dirs, files, links, cwd, arg, frame>>

\* no indicator in path: path = os.path.join(path, os.path.pardir)
FPR_Up ==
    /\ pc = "loop"
    /\ ~is_fs_root(frame.path)
    /\ ~has_indicator(frame.path)
    /\ frame' = [path |-> join(frame.path, Pardir)]
    /\ UNCHANGED <<config, dirs, files, links, cwd, arg, pc, log>>

NextRoot ==
    \/ FPR_Call
    \/ FPR_NotDir
    \/ FPR_EnterLoop
    \/ FPR_Stop
    \/ FPR_Found
    \/ FPR_Up

SpecRoot == InitRoot /\ [][NextRoot]_vars

\* the directory the walk starts from: the one the path names, or the
\* nearest existing directory above the real path
RECURSIVE StartDir(_)
StartDir(p) == IF isdir(p) THEN Lookup(p) ELSE StartDir(dirname(realpath(p)))

\* the stop boundary: the filesystem root, or the home directory when
\* g:ProjRootStopAtHomeDir is set
Boundary(d) == d = Sep \/ (config.ProjRootStopAtHomeDir # 0 /\ d = HOME)

\* the directories from d upward
UpFrom(d) == {d} \cup Ancestors(d)

\* the directories the walk from d visits before it reaches the boundary
Visited(d) ==
    {e \in UpFrom(d) : \A b \in UpFrom(d) : Len(b) >= Len(e) => ~Boundary(b)}

\* a directory that holds a configured indicator
Marked(d) ==
    \E k \in 1..Len(config.ProjRootIndicators) :
        join(d, config.ProjRootIndicators[k]) \in dirs \cup files

\* C5: find_project_root returns the nearest directory, from the start
\* directory upward and before the stop boundary, that holds an indicator,
\* and raises "Could not find project root" exactly when there is none.
C5_NearestIndicator ==
    \A c \in Calls("find_project_root") :
        LET marked == {d \in Visited(StartDir(log[c].arg)) : Marked(d)}
        IN  IF marked = {} THEN log[c].ret = ProjectRootNotFound
            ELSE /\ log[c].ret.ok
                 /\ Lookup(log[c].ret.value)
                        = CHOOSE d \in marked : \A e \in marked : Len(d) >= Len(e)

----------------------------------------------------------------------------
(* SpecSwitch: the editor command that switches between a file and its     *)
(* counterpart, run on the current buffer; the user may write the buffer   *)
(* between two switches                                                    *)

\* What a switch does when it does not raise: the buffer it opens (the
\* buffer stays when the user declined), the directories os.makedirs
\* creates and the directory lcd changes to
Opened(buffer, made, lcd) == Ok([buffer |-> buffer, made |-> made, lcd |-> lcd])

\* os.makedirs(name): the directories it creates, or OSError for ""
makedirs(name) ==
    IF name = "" THEN Raise("OSError", "[Errno 2] No such file or directory: ''")
    ELSE Bind(abspath(name), LAMBDA full : Ok(UpFrom(full) \ dirs))

\* answer is what the user gives to confirm(): 1 for Yes
switch_to_test_file_for_source_file(path, answer) ==
    Then(get_test_file_for_source_file(path), LAMBDA testfile :
    Bind(dirname(testfile), LAMBDA testdir :
    Bind(isfile(testfile), LAMBDA there :
    Then(find_project_root(path), LAMBDA root :
        IF ~there /\ config.PyUnitConfirmTestCreation # 0 /\ answer # 1
        THEN Opened(path, {}, cwd)
        ELSE IF ~there /\ ~exists(testdir)
        THEN Then(makedirs(testdir), LAMBDA made :
                 Opened(abspath(testfile), made, root))
        ELSE Opened(abspath(testfile), {}, root)))))

switch_to_source_file_for_test_file(path) ==
    Then(find_source_file_for_test_file(path), LAMBDA sourcefile :
    Then(find_project_root(path), LAMBDA root :
        Opened(abspath(sourcefile), {}, root)))

PyUnitSwitchToCounterpartOfFile(path, answer) ==
    Then(is_test_file(path), LAMBDA is_test :
        IF is_test THEN switch_to_source_file_for_test_file(path)
        ELSE switch_to_test_file_for_source_file(path, answer))

InitSwitch ==
    /\ \E layout \in KnownLayouts, sroot \in {"src", ""} :
         /\ config = [Cfg(layout, "test_") EXCEPT !.PyUnitSourceRoot = sroot]
         /\ \E rel \in LayoutInputs(sroot) : arg = join("/p", rel)
    /\ cwd \in {"/p", "/"}
    /\ files = {arg}
    /\ dirs = {"/", "/p", "/p/.git"} \cup AncestorsOfAll(files)
    /\ links = {}
    /\ pc = "idle"
    /\ frame = <<>>
    /\ log = <<>>

\* :call PyUnitSwitchToCounterpartOfFile(<the buffer's path>)
Switch ==
    /\ Len(log) < MaxCalls
    /\ \E answer \in {1, 2} :
       \E r \in {PyUnitSwitchToCounterpartOfFile(arg, answer)} :
         /\ log' = Append(log, [op |-> "switch", arg |-> arg, ret |-> r,
                                is_test |-> is_test_file(arg),
                                existed |-> arg \in files])
         /\ IF r.ok
            THEN /\ arg' = r.value.buffer
                 /\ dirs' = dirs \cup r.value.made
                 /\ cwd' = r.value.lcd
            ELSE UNCHANGED <<arg, dirs, cwd>>
    /\ UNCHANGED <<config, files, links, pc, frame>>

\* :write, the buffer's file is created when its directory exists
WriteBuffer ==
    /\ arg \notin files
    /\ dirname(arg) \in dirs
    /\ files' = files \cup {arg}
    /\ UNCHANGED <<config, dirs, links, cwd, arg, pc, frame, log>>

NextSwitch ==
    \/ Switch
    \/ WriteBuffer

SpecSwitch == InitSwitch /\ [][NextSwitch]_vars

\* a path below the project's source root
InSourceRoot(p) == StartsWith(p, join(join("/p", source_root), ""))

\* C10: when a switch on an existing source file S under the source root
\* opened the test file T, a later switch on T, once T exists, classifies
\* T as a test file and opens S.
C10_SwitchTwice ==
    \A i, j \in Calls("switch") :
        (/\ i < j
         /\ log[i].existed
         /\ InSourceRoot(log[i].arg)
         /\ log[i].is_test = Ok(FALSE)
         /\ log[i].ret.ok
         /\ log[i].ret.value.buffer # log[i].arg
         /\ log[j].arg = log[i].ret.value.buffer
         /\ log[j].existed)
        => /\ log[j].is_test = Ok(TRUE)
           /\ log[j].ret.ok
           /\ log[j].ret.value.buffer = log[i].arg

====
